---- MODULE Spec2Model ----
(***************************************************************************)
(* Chat backend (src/api.py): the WebSocket connection manager, the        *)
(* per-connection handler websocket_endpoint and the message collection.   *)
(*                                                                         *)
(* One handler task runs per open connection.  A task only gives up        *)
(* control at an await, so each action below is the code that runs from    *)
(* the completion of one await up to the start of the next one:            *)
(*   receive_text (l.83), send_text of an error reply (l.90, l.128),       *)
(*   insert_one (l.104), the receiver's send_text (l.71), the sender's     *)
(*   send_text of the confirmation (l.122).                                *)
(***************************************************************************)
EXTENDS Integers, Sequences, FiniteSets, TLC

(* ------------------------------ bounds --------------------------------- *)
MaxConns == 2     \* connections opened in one run
MaxUser == 2      \* user ids 1..MaxUser appear in paths and frames
MaxFrames == 1    \* text frames received over all connections
MaxTime == 1      \* values datetime.utcnow() takes

Conns == 1..MaxConns
Users == 1..MaxUser
Times == 1..MaxTime
Bodies == {"hi"}

(* ------------------------- values of the code -------------------------- *)
\* Python's None for an absent "receiver_id" key and for an absent "message".
NoneId == 0 - 1
NoneText == "<None>"
\* No websocket / no ObjectId held in a local variable.
NoChannel == 0
NoObjectId == 0

ReceiverValues == Users \cup {NoneId, 0}
MessageValues == Bodies \cup {NoneText, ""}

\* The text frames a peer may send: unparsable text, JSON that is no object,
\* and JSON objects with the two keys present, absent or empty.
InboundFrames ==
    {[kind |-> "text"], [kind |-> "array"]}
    \cup {[kind |-> "object", receiver_id |-> r, message |-> m] :
             r \in ReceiverValues, m \in MessageValues}

\* Python truthiness of the values .get() can return here: None, 0 and ""
\* are falsy ("not receiver_id", "not message_content").
not_receiver_id(v) == v \in {NoneId, 0}
not_message_content(v) == v \in {NoneText, ""}

\* str(ObjectId) and datetime.isoformat(): injective renderings, not the
\* identity.
str(oid) == <<"str", oid>>
isoformat(t) == <<"iso", t>>

\* The pair as given, not sorted.
sorted_as_given(a, b) == <<a, b>>

\* sorted([a, b])
sorted(a, b) == IF a <= b THEN <<a, b>> ELSE <<b, a>>

VARIABLES
    active_connections, \* ConnectionManager.active_connections: user id -> websocket
    pc,                 \* where each connection's handler task stands
    user_id,            \* the path parameter of each connection
    alive,              \* FALSE once a receive or send has met the peer gone
    data,               \* the frame the handler is processing (local "data", l.83)
    cur,                \* the handler's other local variables for that frame
    exc,                \* the exception that ended the handler, and where it was raised
    chat_collection,    \* the documents of db.chat_messages
    written,            \* every document insert_one has acknowledged
    next_oid,           \* the next ObjectId the store assigns
    utcnow,             \* the wall clock
    chan,               \* the text frames each websocket's peer has been sent
    nFrames,            \* frames received so far
    nConns,             \* connections opened so far
    rest                \* the last REST request served, with its response

vars == <<active_connections, pc, user_id, alive, data, cur, exc, chat_collection,
          written, next_oid, utcnow, chan, nFrames, nConns, rest>>

Running == {"recv", "reply", "insert", "push", "ack"}

NoLocals == [receiver_id |-> NoneId, message_content |-> NoneText,
             timestamp |-> 0, inserted_id |-> NoObjectId,
             target |-> NoChannel, sent |-> FALSE, reply |-> ""]

NoData == [kind |-> "none"]

NoExc == [type |-> "none", at |-> "none"]

NoRequest == [op |-> "none"]

\* A websocket accepts a frame while its peer is there and its handler has
\* not returned (the server closes the socket when the handler ends).  A
\* peer may go at any moment; alive[c] turns FALSE at the first receive or
\* send on c that meets the peer gone.
ChannelOpen(c) == alive[c] /\ pc[c] \in Running

\* What a send_text on a vanished peer raises depends on the installed
\* Starlette/uvicorn: WebSocketDisconnect, or an error of another class.
SendFailures == {"WebSocketDisconnect", "RuntimeError"}

Init ==
    /\ active_connections = << >>
    /\ pc = [c \in Conns |-> "idle"]
    /\ user_id = [c \in Conns |-> 0]
    /\ alive = [c \in Conns |-> FALSE]
    /\ data = [c \in Conns |-> NoData]
    /\ cur = [c \in Conns |-> NoLocals]
    /\ exc = [c \in Conns |-> NoExc]
    /\ chat_collection = {}
    /\ written = {}
    /\ next_oid = 1
    /\ utcnow = 1
    /\ chan = [c \in Conns |-> << >>]
    /\ nFrames = 0
    /\ nConns = 0
    /\ rest = NoRequest

(* ------------------------ ConnectionManager ---------------------------- *)
\* A registration that keeps the entry a user already has.
connect_setdefault(reg, u, ws) ==
    [x \in DOMAIN reg \cup {u} |-> IF x \in DOMAIN reg THEN reg[x] ELSE ws]

\* connect: self.active_connections[user_id] = websocket
connect(reg, u, ws) ==
    [x \in DOMAIN reg \cup {u} |-> IF x = u THEN ws ELSE reg[x]]

\* disconnect: if user_id in self.active_connections: del ...[user_id]
disconnect(reg, u) ==
    [x \in DOMAIN reg \ {u} |-> reg[x]]

\* send_personal_message, up to its await: the websocket the message is
\* sent on, or none when the user has no entry (the call then returns False).
lookup(reg, u) ==
    IF u \in DOMAIN reg THEN reg[u] ELSE NoChannel

(* ------------------------- websocket_endpoint -------------------------- *)
\* The validation with "and" written for "or".
invalid_and(receiver_id, message_content) ==
    not_receiver_id(receiver_id) /\ not_message_content(message_content)

\* if not receiver_id or not message_content
invalid(receiver_id, message_content) ==
    not_receiver_id(receiver_id) \/ not_message_content(message_content)

\* The document built at l.95-102, with the _id the store gives it.
chat_message(oid, sender, receiver, content, t) ==
    [_id |-> oid, sender_id |-> sender, receiver_id |-> receiver,
     message |-> content, timestamp |-> t, is_read |-> FALSE,
     conversation_id |-> sorted(sender, receiver)]

\* An insert that is acknowledged without the document being kept.
insert_one_dropped(coll, doc) == coll

\* chat_collection.insert_one(doc), acknowledged
insert_one(coll, doc) == coll \cup {doc}

\* The push built from the sender's confirmation, "delivered" included.
formatted_message_with_delivered(oid, sender, content, t) ==
    [id |-> str(oid), sender_id |-> sender, message |-> content,
     timestamp |-> isoformat(t), is_read |-> FALSE, delivered |-> FALSE]

\* formatted_message, l.107-113
formatted_message(oid, sender, content, t) ==
    [id |-> str(oid), sender_id |-> sender, message |-> content,
     timestamp |-> isoformat(t), is_read |-> FALSE]

\* The confirmation with "delivered" fixed to True.
confirmation_delivered(oid, sender, content, t, sent) ==
    [id |-> str(oid), sender_id |-> sender, message |-> content,
     timestamp |-> isoformat(t), is_read |-> FALSE, delivered |-> TRUE]

\* {**formatted_message, "delivered": sent}, l.122-125
confirmation(oid, sender, content, t, sent) ==
    [id |-> str(oid), sender_id |-> sender, message |-> content,
     timestamp |-> isoformat(t), is_read |-> FALSE, delivered |-> sent]

\* {"error": text}
error_frame(text) == [error |-> text]

\* An exception leaves the while loop.  Only WebSocketDisconnect is caught
\* (l.130-131), and its handler calls manager.disconnect(user_id); any other
\* exception ends the task with the registry untouched.  Either way the
\* handler's locals are gone and the server closes the socket.
Raise(c, type, at) ==
    /\ exc' = [exc EXCEPT ![c] = [type |-> type, at |-> at]]
    /\ pc' = [pc EXCEPT ![c] = "closed"]
    /\ alive' = [alive EXCEPT ![c] = FALSE]
    /\ cur' = [cur EXCEPT ![c] = NoLocals]
    /\ data' = [data EXCEPT ![c] = NoData]
    /\ active_connections' =
          IF type = "WebSocketDisconnect"
          THEN disconnect(active_connections, user_id[c])
          ELSE active_connections

\* A client opens /ws/{u}: accept, then register (l.80, l.61-63).
Connect(u) ==
    /\ nConns < MaxConns
    /\ LET c == nConns + 1 IN
        /\ nConns' = c
        /\ pc' = [pc EXCEPT ![c] = "recv"]
        /\ user_id' = [user_id EXCEPT ![c] = u]
        /\ alive' = [alive EXCEPT ![c] = TRUE]
        /\ active_connections' = connect(active_connections, u, c)
    /\ UNCHANGED <<data, cur, exc, chat_collection, written, next_oid, utcnow,
                   chan, nFrames, rest>>

\* receive_text returns a frame: l.83-102, up to the await it reaches.
\* datetime.utcnow() (l.94) reads a clock that has moved on by any amount
\* since it was last read.
Receive(c, f, now) ==
    /\ pc[c] = "recv"
    /\ alive[c]
    /\ nFrames < MaxFrames
    /\ nFrames' = nFrames + 1
    /\ now >= utcnow
    /\ IF f.kind = "text"
       THEN \* json.loads raises JSONDecodeError; l.127-128
            /\ cur' = [cur EXCEPT ![c] = [NoLocals EXCEPT !.reply = "Invalid JSON"]]
            /\ pc' = [pc EXCEPT ![c] = "reply"]
            /\ data' = [data EXCEPT ![c] = f]
            /\ UNCHANGED <<exc, active_connections, alive>>
       ELSE IF f.kind = "array"
       THEN \* message_data.get raises AttributeError, which nothing catches
            /\ Raise(c, "AttributeError", "parse")
       ELSE IF invalid(f.receiver_id, f.message)
       THEN \* l.89-91
            /\ cur' = [cur EXCEPT ![c] =
                         [NoLocals EXCEPT !.reply = "Invalid message format"]]
            /\ pc' = [pc EXCEPT ![c] = "reply"]
            /\ data' = [data EXCEPT ![c] = f]
            /\ UNCHANGED <<exc, active_connections, alive>>
       ELSE \* l.94-104: the document is built and insert_one is awaited
            /\ cur' = [cur EXCEPT ![c] =
                         [NoLocals EXCEPT !.receiver_id = f.receiver_id,
                                          !.message_content = f.message,
                                          !.timestamp = now]]
            /\ pc' = [pc EXCEPT ![c] = "insert"]
            /\ data' = [data EXCEPT ![c] = f]
            /\ UNCHANGED <<exc, active_connections, alive>>
    /\ utcnow' = IF f.kind = "object" /\ ~invalid(f.receiver_id, f.message)
                 THEN now ELSE utcnow
    /\ UNCHANGED <<user_id, chat_collection, written, next_oid, chan, nConns, rest>>

\* The peer has gone: receive_text raises WebSocketDisconnect, l.130-131.
ReceiveDisconnect(c) ==
    /\ pc[c] = "recv"
    /\ Raise(c, "WebSocketDisconnect", "receive")
    /\ UNCHANGED <<user_id, chat_collection, written, next_oid,
                   utcnow, chan, nFrames, nConns, rest>>

\* The error reply of l.90 or l.128 is sent; the loop goes on to the next
\* frame ("data" is dead until receive_text assigns it again).
ReplyError(c) ==
    /\ pc[c] = "reply"
    /\ alive[c]
    /\ chan' = [chan EXCEPT ![c] = Append(@, error_frame(cur[c].reply))]
    /\ pc' = [pc EXCEPT ![c] = "recv"]
    /\ data' = [data EXCEPT ![c] = NoData]
    /\ UNCHANGED <<active_connections, user_id, alive, cur, exc,
                   chat_collection, written, next_oid, utcnow, nFrames, nConns, rest>>

\* The peer has gone and the error reply cannot be sent: send_text raises.
ReplyFail(c) ==
    /\ pc[c] = "reply"
    /\ \E e \in SendFailures : Raise(c, e, "reply")
    /\ UNCHANGED <<user_id, chat_collection, written, next_oid,
                   utcnow, chan, nFrames, nConns, rest>>

\* insert_one returns (l.104); l.107-119 run up to the await inside
\* send_personal_message, or, with no entry for the receiver, up to the
\* await of the confirmation (l.122).
InsertOK(c) ==
    /\ pc[c] = "insert"
    /\ LET doc == chat_message(next_oid, user_id[c], cur[c].receiver_id,
                               cur[c].message_content, cur[c].timestamp)
           ws == lookup(active_connections, cur[c].receiver_id)
       IN
        /\ chat_collection' = insert_one(chat_collection, doc)
        /\ written' = insert_one(written, doc)
        /\ cur' = [cur EXCEPT ![c].inserted_id = next_oid,
                              ![c].target = ws,
                              ![c].sent = FALSE]
        /\ pc' = [pc EXCEPT ![c] = IF ws = NoChannel THEN "ack" ELSE "push"]
    /\ next_oid' = next_oid + 1
    /\ UNCHANGED <<active_connections, user_id, alive, data, exc, utcnow, chan,
                   nFrames, nConns, rest>>

\* The store error caught and ignored: the dispatch goes on to the
\* receiver lookup and the confirmation.
InsertFail_Swallowed(c) ==
    /\ pc[c] = "insert"
    /\ LET ws == lookup(active_connections, cur[c].receiver_id) IN
        /\ cur' = [cur EXCEPT ![c].target = ws]
        /\ pc' = [pc EXCEPT ![c] = IF ws = NoChannel THEN "ack" ELSE "push"]
    /\ UNCHANGED <<active_connections, user_id, alive, data, exc,
                   chat_collection, written, next_oid, utcnow, chan, nFrames,
                   nConns, rest>>

\* insert_one raises (store unreachable, write rejected): nothing catches it.
InsertFail(c) ==
    /\ pc[c] = "insert"
    /\ Raise(c, "PyMongoError", "insert")
    /\ UNCHANGED <<user_id, chat_collection, written, next_oid,
                   utcnow, chan, nFrames, nConns, rest>>

\* A push that is left out when the receiver's channel is the sender's own.
Push_not_to_self(c) ==
    /\ pc[c] = "push"
    /\ ChannelOpen(cur[c].target)
    /\ chan' = [chan EXCEPT ![cur[c].target] =
                   IF cur[c].target = c THEN @
                   ELSE Append(@, formatted_message(cur[c].inserted_id,
                                                    user_id[c],
                                                    cur[c].message_content,
                                                    cur[c].timestamp))]
    /\ cur' = [cur EXCEPT ![c].sent = TRUE]
    /\ pc' = [pc EXCEPT ![c] = "ack"]
    /\ UNCHANGED <<active_connections, user_id, alive, data, exc, chat_collection,
                   written, next_oid, utcnow, nFrames, nConns, rest>>

\* The receiver's send_text returns: send_personal_message returns True (l.71-72).
Push(c) ==
    /\ pc[c] = "push"
    /\ ChannelOpen(cur[c].target)
    /\ chan' = [chan EXCEPT ![cur[c].target] =
                   Append(@, formatted_message(cur[c].inserted_id, user_id[c],
                                               cur[c].message_content,
                                               cur[c].timestamp))]
    /\ cur' = [cur EXCEPT ![c].sent = TRUE]
    /\ pc' = [pc EXCEPT ![c] = "ack"]
    /\ UNCHANGED <<active_connections, user_id, alive, data, exc, chat_collection,
                   written, next_oid, utcnow, nFrames, nConns, rest>>

\* The receiver's websocket is closed or its peer has gone: send_text
\* raises, and the exception leaves send_personal_message and the sender's
\* loop.
PushFail(c) ==
    /\ pc[c] = "push"
    /\ \E e \in SendFailures :
          /\ exc' = [exc EXCEPT ![c] = [type |-> e, at |-> "push"]]
          /\ pc' = [pc EXCEPT ![c] = "closed"]
          /\ alive' = [alive EXCEPT ![c] = FALSE, ![cur[c].target] = FALSE]
          /\ cur' = [cur EXCEPT ![c] = NoLocals]
          /\ data' = [data EXCEPT ![c] = NoData]
          /\ active_connections' =
                IF e = "WebSocketDisconnect"
                THEN disconnect(active_connections, user_id[c])
                ELSE active_connections
    /\ UNCHANGED <<user_id, chat_collection, written, next_oid,
                   utcnow, chan, nFrames, nConns, rest>>

\* The confirmation is sent to the sender (l.122-125); next frame.
Ack(c) ==
    /\ pc[c] = "ack"
    /\ alive[c]
    /\ chan' = [chan EXCEPT ![c] =
                   Append(@, confirmation(cur[c].inserted_id, user_id[c],
                                          cur[c].message_content,
                                          cur[c].timestamp, cur[c].sent))]
    /\ pc' = [pc EXCEPT ![c] = "recv"]
    /\ data' = [data EXCEPT ![c] = NoData]
    /\ UNCHANGED <<active_connections, user_id, alive, cur, exc,
                   chat_collection, written, next_oid, utcnow, nFrames, nConns, rest>>

\* The peer has gone and the confirmation cannot be sent: send_text raises.
AckFail(c) ==
    /\ pc[c] = "ack"
    /\ \E e \in SendFailures : Raise(c, e, "ack")
    /\ UNCHANGED <<user_id, chat_collection, written, next_oid,
                   utcnow, chan, nFrames, nConns, rest>>

Next ==
    \/ \E u \in Users : Connect(u)
    \/ \E c \in Conns : \E f \in InboundFrames : \E now \in Times :
          Receive(c, f, now)
    \/ \E c \in Conns : ReceiveDisconnect(c)
    \/ \E c \in Conns : ReplyError(c)
    \/ \E c \in Conns : ReplyFail(c)
    \/ \E c \in Conns : InsertOK(c)
    \/ \E c \in Conns : InsertFail(c)
    \/ \E c \in Conns : Push(c)
    \/ \E c \in Conns : PushFail(c)
    \/ \E c \in Conns : Ack(c)
    \/ \E c \in Conns : AckFail(c)

Spec == Init /\ [][Next]_vars

TypeOK ==
    /\ DOMAIN active_connections \subseteq Users
    /\ \A u \in DOMAIN active_connections : active_connections[u] \in Conns
    /\ pc \in [Conns -> Running \cup {"idle", "closed"}]
    /\ next_oid \in 1..(MaxFrames + 1)
    /\ utcnow \in Times
    /\ nFrames \in 0..MaxFrames
    /\ nConns \in 0..MaxConns

(* --------------------------- REST endpoints ---------------------------- *)
\* Each endpoint below awaits the store once (get_recent_conversations also
\* awaits one count per entry); it is served in one step, on the collection
\* as it stands at that moment, and what it returns is kept in rest.

Min(a, b) == IF a <= b THEN a ELSE b

\* The update filter that does not look at is_read.
mark_filter_any_flag(coll, sender_id, receiver_id) ==
    {d \in coll : d.sender_id = sender_id /\ d.receiver_id = receiver_id}

\* {"sender_id": ..., "receiver_id": ..., "is_read": False}, l.159-163 (and
\* l.243-247)
mark_filter(coll, sender_id, receiver_id) ==
    {d \in coll : /\ d.sender_id = sender_id
                  /\ d.receiver_id = receiver_id
                  /\ d.is_read = FALSE}

\* An update that marks every document of the collection.
update_many_set_read_all(coll, matched) ==
    IF matched = {} THEN coll ELSE {[d EXCEPT !.is_read = TRUE] : d \in coll}

\* update_many(filter, {"$set": {"is_read": True}})
update_many_set_read(coll, matched) ==
    (coll \ matched) \cup {[d EXCEPT !.is_read = TRUE] : d \in matched}

\* mark_messages_read, l.156-167
MarkMessagesRead(sender_id, receiver_id) ==
    LET matched == mark_filter(chat_collection, sender_id, receiver_id) IN
    /\ chat_collection' = update_many_set_read(chat_collection, matched)
    /\ rest' = [op |-> "mark_messages_read", sender_id |-> sender_id,
                receiver_id |-> receiver_id, status |-> 200,
                body |-> [marked_as_read |-> Cardinality(matched)]]
    /\ UNCHANGED <<active_connections, pc, user_id, alive, data, cur, exc,
                   written, next_oid, utcnow, chan, nFrames, nConns>>

\* The length to_list is given at l.187.
UnreadListLength == 100

\* The subsets of S with k elements.
RECURSIVE KSubsets(_, _)
KSubsets(S, k) ==
    IF k = 0 THEN {{}}
    ELSE IF Cardinality(S) < k THEN {}
    ELSE UNION {{T \cup {x} : T \in KSubsets({y \in S : y > x}, k - 1)} : x \in S}

\* $match {"receiver_id": user, "is_read": False}, l.174-177
unread_match(coll, user) ==
    {d \in coll : d.receiver_id = user /\ d.is_read = FALSE}

\* $group by sender with {"$sum": 1}, l.180-183: the groups, by their _id
unread_group(matched) ==
    [s \in {d.sender_id : d \in matched} |->
        Cardinality({d \in matched : d.sender_id = s})]

\* to_list(length=n) keeps the first n results of the cursor and leaves the
\* others; the order $group emits its groups in is not defined.
to_list(groups, n) ==
    {groups \ left :
        left \in KSubsets(groups,
                          Cardinality(groups) - Min(Cardinality(groups), n))}

\* {str(result["_id"]): result["count"] for result in results}, l.188
unread_body(counts, kept) ==
    [k \in {str(sender) : sender \in kept} |-> counts[k[2]]]

\* get_unread_messages, l.170-188
GetUnreadMessages(user) ==
    LET counts == unread_group(unread_match(chat_collection, user)) IN
    /\ \E kept \in to_list(DOMAIN counts, UnreadListLength) :
          rest' = [op |-> "unread_messages", user_id |-> user, status |-> 200,
                   body |-> unread_body(counts, kept)]
    /\ UNCHANGED <<active_connections, pc, user_id, alive, data, cur, exc,
                   chat_collection, written, next_oid, utcnow, chan, nFrames,
                   nConns>>

\* find({"conversation_id": sorted([user_id1, user_id2])}), l.140-142
find_conversation(coll, user_id1, user_id2) ==
    {d \in coll : d.conversation_id = sorted(user_id1, user_id2)}

\* The documents of S in a row, each once.
Orderings(S) ==
    {s \in [1..Cardinality(S) -> S] :
        \A i, j \in DOMAIN s : i # j => s[i] # s[j]}

\* A cursor that ignores the sort.
sort_timestamp_unsorted(S, direction) == Orderings(S)

\* sort("timestamp", direction): the store does not say in which order it
\* returns documents of equal timestamp, so every order that respects the
\* timestamps is a possible result.
sort_timestamp(S, direction) ==
    {s \in Orderings(S) :
        \A i, j \in DOMAIN s :
            i < j => direction * s[i].timestamp <= direction * s[j].timestamp}

\* .skip(skip).limit(limit), to_list(length=limit)
skip_limit(s, skip, limit) == SubSeq(s, skip + 1, Min(Len(s), skip + limit))

\* msg["id"] = str(msg.pop("_id")); msg["timestamp"] = ....isoformat()
format_message(d) ==
    [id |-> str(d._id), sender_id |-> d.sender_id,
     receiver_id |-> d.receiver_id, message |-> d.message,
     timestamp |-> isoformat(d.timestamp), is_read |-> d.is_read,
     conversation_id |-> d.conversation_id]

\* get_chat_history, l.134-153
GetChatHistory(user_id1, user_id2, limit, skip) ==
    /\ \E s \in sort_timestamp(
                   find_conversation(chat_collection, user_id1, user_id2), 1) :
          LET messages == skip_limit(s, skip, limit) IN
          rest' = [op |-> "chat_history", user_id1 |-> user_id1,
                   user_id2 |-> user_id2, limit |-> limit, skip |-> skip,
                   status |-> 200,
                   body |-> [i \in DOMAIN messages |->
                                format_message(messages[i])]]
    /\ UNCHANGED <<active_connections, pc, user_id, alive, data, cur, exc,
                   chat_collection, written, next_oid, utcnow, chan, nFrames,
                   nConns>>

\* $match {"$or": [{"sender_id": user}, {"receiver_id": user}]}, l.198-203
recent_match(coll, user) ==
    {d \in coll : d.sender_id = user \/ d.receiver_id = user}

\* A $group key that is the sender, whoever asks.
group_id_sender(d, user) == d.sender_id

\* The $group key, l.210-216
group_id(d, user) == IF d.sender_id = user THEN d.receiver_id ELSE d.sender_id

\* $sort by timestamp descending, then $group with $first: each group gives
\* the document the sort put first of it, one of its latest (l.205-222).
last_messages(matched, user) ==
    LET ids == {group_id(d, user) : d \in matched}
        first(g) == {d \in matched :
                        /\ group_id(d, user) = g
                        /\ \A e \in matched :
                              group_id(e, user) = g
                                 => e.timestamp <= d.timestamp}
    IN {{f[g] : g \in ids} : f \in {h \in [ids -> matched] :
                                       \A g \in ids : h[g] \in first(g)}}

\* l.236-249, with the count of l.243-247
format_conversation(d, user, coll) ==
    LET other_user_id ==
            IF d.receiver_id = user THEN d.sender_id ELSE d.receiver_id
    IN [id |-> str(d._id), sender_id |-> d.sender_id,
        receiver_id |-> d.receiver_id, message |-> d.message,
        timestamp |-> isoformat(d.timestamp), is_read |-> d.is_read,
        conversation_id |-> d.conversation_id,
        unread_count |-> Cardinality(mark_filter(coll, other_user_id, user))]

\* get_recent_conversations, l.191-252
GetRecentConversations(user, limit) ==
    /\ \E last \in last_messages(recent_match(chat_collection, user), user) :
       \E s \in sort_timestamp(last, 0 - 1) :
          LET conversations == skip_limit(s, 0, limit) IN
          rest' = [op |-> "recent_conversations", user_id |-> user,
                   limit |-> limit, status |-> 200,
                   body |-> [i \in DOMAIN conversations |->
                                format_conversation(conversations[i], user,
                                                    chat_collection)]]
    /\ UNCHANGED <<active_connections, pc, user_id, alive, data, cur, exc,
                   chat_collection, written, next_oid, utcnow, chan, nFrames,
                   nConns>>

\* A path parameter that is not the text of an ObjectId.
JunkId == <<"junk", NoObjectId>>

\* ObjectId(message_id): the id a text stands for; raises InvalidId on any
\* other text.
ObjectIdValid(message_id) == message_id[1] = "str"
ObjectId(message_id) == message_id[2]

\* delete_one({"_id": oid})
delete_one(coll, oid) == {d \in coll : d._id # oid}

HTTPException(status_code, detail) ==
    [status_code |-> status_code, detail |-> detail]

\* delete_message, l.280-288.  The HTTPException of l.285 is raised inside
\* the try, so the except of l.287 catches it like any other exception and
\* raises the one of l.288 in its place.
DeleteMessage(message_id) ==
    LET after == delete_one(chat_collection, ObjectId(message_id))
        deleted_count == Cardinality(chat_collection) - Cardinality(after)
        e == IF ~ObjectIdValid(message_id) THEN "InvalidId"
             ELSE HTTPException(404, "Message not found")
        raised == HTTPException(400, str(e))
    IN
    /\ IF ObjectIdValid(message_id) /\ deleted_count # 0
       THEN /\ chat_collection' = after
            /\ rest' = [op |-> "delete_message", message_id |-> message_id,
                        status |-> 200, body |-> [success |-> TRUE]]
       ELSE /\ chat_collection' = chat_collection
            /\ rest' = [op |-> "delete_message", message_id |-> message_id,
                        status |-> raised.status_code,
                        body |-> [detail |-> raised.detail]]
    /\ UNCHANGED <<active_connections, pc, user_id, alive, data, cur, exc,
                   written, next_oid, utcnow, chan, nFrames, nConns>>

(* ------------------- the store under REST requests --------------------- *)
LexLeq(k, l) ==
    \/ k[1] < l[1]
    \/ k[1] = l[1] /\ k[2] < l[2]
    \/ k[1] = l[1] /\ k[2] = l[2] /\ k[3] <= l[3]

\* (sender, receiver) of the frame connection c holds; the third component
\* is not used.
FrameKey(c) == <<user_id[c], cur[c].receiver_id, 0>>

MessageIds == {str(oid) : oid \in 1..MaxConns} \cup {JunkId}

\* Every connection is open and its handler has validated a frame and built
\* the document (l.83-102), all at one reading of the clock; the insert_one
\* of l.104 is awaited.  Nothing is stored yet.  The connections are numbered
\* in the order of their frames' keys: the inserts complete in any order, so
\* every assignment of ids to documents is still reached.
InitStore ==
    /\ nConns = MaxConns
    /\ nFrames = MaxConns
    /\ utcnow = 1
    /\ user_id \in [Conns -> Users]
    /\ cur \in [Conns -> {[NoLocals EXCEPT !.receiver_id = r,
                                           !.message_content = m,
                                           !.timestamp = utcnow] :
                             r \in Users, m \in Bodies}]
    /\ \A c \in Conns \ {MaxConns} : LexLeq(FrameKey(c), FrameKey(c + 1))
    /\ data = [c \in Conns |-> [kind |-> "object",
                                receiver_id |-> cur[c].receiver_id,
                                message |-> cur[c].message_content]]
    /\ pc = [c \in Conns |-> "insert"]
    /\ alive = [c \in Conns |-> TRUE]
    /\ exc = [c \in Conns |-> NoExc]
    /\ active_connections =
          [u \in {user_id[c] : c \in Conns} |->
              CHOOSE c \in Conns :
                 /\ user_id[c] = u
                 /\ \A d \in Conns : user_id[d] = u => d <= c]
    /\ chat_collection = {}
    /\ written = {}
    /\ next_oid = 1
    /\ chan = [c \in Conns |-> << >>]
    /\ rest = NoRequest

\* Dispatches, mark-read, delete and the unread counts.
NextStore ==
    \/ \E c \in Conns : InsertOK(c)
    \/ \E sender \in Users : \E receiver \in Users :
          MarkMessagesRead(sender, receiver)
    \/ \E user \in Users : GetUnreadMessages(user)
    \/ \E message_id \in MessageIds : DeleteMessage(message_id)

SpecStore == InitStore /\ [][NextStore]_vars

\* The clock readings of stored documents: as many values as documents.
Stamps == 1..MaxConns

\* The windows asked for: one document or the whole collection, from the
\* first document or from the second.
Limits == {1, MaxConns}
Skips == {0, 1}

\* The server has just started: no connection is open and no request has
\* been served; the database holds what earlier runs wrote.
Started ==
    /\ written = chat_collection
    /\ next_oid = Cardinality(chat_collection) + 1
    /\ active_connections = << >>
    /\ pc = [c \in Conns |-> "idle"]
    /\ user_id = [c \in Conns |-> 0]
    /\ alive = [c \in Conns |-> FALSE]
    /\ data = [c \in Conns |-> NoData]
    /\ cur = [c \in Conns |-> NoLocals]
    /\ exc = [c \in Conns |-> NoExc]
    /\ chan = [c \in Conns |-> << >>]
    /\ nFrames = 0
    /\ nConns = 0
    /\ rest = NoRequest

\* MaxConns documents written by websocket_endpoint (l.95-104), the one
\* numbered c marked read by mark_messages_read (l.164) where read[c]; the
\* ids follow the order of (sender, receiver, timestamp).
Stored(read) ==
    \E sender \in [Conns -> Users] : \E receiver \in [Conns -> Users] :
    \E t \in [Conns -> Stamps] : \E m \in Bodies :
       /\ \A c \in Conns \ {MaxConns} :
             LexLeq(<<sender[c], receiver[c], t[c]>>,
                    <<sender[c + 1], receiver[c + 1], t[c + 1]>>)
       /\ chat_collection =
             {[chat_message(c, sender[c], receiver[c], m, t[c])
                  EXCEPT !.is_read = read[c]] : c \in Conns}

\* The server has started on a database of MaxConns documents, none read.
InitQuery ==
    /\ Stored([c \in Conns |-> FALSE])
    /\ utcnow = MaxConns
    /\ Started

\* The users of a deployment with one user more than to_list keeps groups.
ManyUsers == 1..(UnreadListLength + 1)

\* The server has started on a database in which the first n of ManyUsers
\* have each sent one message to the same receiver, none read yet.
InitUnread ==
    /\ \E n \in {0} \cup ManyUsers : \E receiver \in Users : \E m \in Bodies :
          chat_collection =
             {chat_message(u, u, receiver, m, 1) : u \in 1..n}
    /\ utcnow = 1
    /\ Started

\* The unread counts of a user.
NextUnread == \E user \in Users : GetUnreadMessages(user)

SpecUnread == InitUnread /\ [][NextUnread]_vars

\* The history of a conversation.
NextHistory ==
    \E a \in Users : \E b \in Users : \E limit \in Limits : \E skip \in Skips :
        GetChatHistory(a, b, limit, skip)

SpecHistory == InitQuery /\ [][NextHistory]_vars

\* The server has started on a database of MaxConns documents, some read.
InitRecent ==
    /\ \E read \in [Conns -> BOOLEAN] : Stored(read)
    /\ utcnow = MaxConns
    /\ Started

\* The recent conversations of a user.
NextRecent ==
    \E user \in Users : \E limit \in Limits :
        GetRecentConversations(user, limit)

SpecRecent == InitRecent /\ [][NextRecent]_vars

(* ----------------------- reading the channels -------------------------- *)
\* The positions of the frames sent so far, over all websockets.
Slots == UNION {{<<c, i>> : i \in DOMAIN chan[c]} : c \in Conns}
frame(s) == chan[s[1]][s[2]]

IsError(f) == "error" \in DOMAIN f
IsConfirmation(f) == "delivered" \in DOMAIN f
IsPush(f) == ~IsError(f) /\ ~IsConfirmation(f)

PushesOf(oid) == {s \in Slots : IsPush(frame(s)) /\ frame(s).id = str(oid)}
AcksOf(oid) == {s \in Slots : IsConfirmation(frame(s)) /\ frame(s).id = str(oid)}
RecordsOf(oid) == {r \in written : r._id = oid}

\* A handler holding the result of a completed insert_one.
Dispatching(c) ==
    pc[c] \in {"push", "ack", "recv"} /\ cur[c].inserted_id # NoObjectId

(* ------------------------------ claims --------------------------------- *)

\* C1: the close of a connection removes its user's registration only if the
\* registry maps the user to that very connection; when a newer connection c2
\* of the same user has displaced c1, the close of c1 leaves the registry
\* mapping the user to c2.
C1_UnregisterGuardedByChannel ==
    [][\A c \in Conns :
          (/\ pc[c] \in Running
           /\ pc'[c] = "closed"
           /\ user_id[c] \in DOMAIN active_connections
           /\ active_connections[user_id[c]] # c)
          => (/\ user_id[c] \in DOMAIN active_connections'
              /\ active_connections'[user_id[c]] = active_connections[user_id[c]])
      ]_vars

\* C2: every registry entry refers to a connection whose handler is still
\* running, whatever ended the handlers that have ended.
C2_RegistryEntriesAreRunning ==
    \A u \in DOMAIN active_connections : pc[active_connections[u]] \in Running

\* C3: write-then-push.  A handler waiting on the receiver's send or on the
\* confirmation holds a document that insert_one has acknowledged, and every
\* push and every confirmation found on any channel renders such a document:
\* its id, sender, body and timestamp, on the channel of a connection of that
\* document's receiver (push) or sender (confirmation).
C3_WriteThenPush ==
    /\ \A c \in Conns :
          pc[c] \in {"push", "ack"} =>
             chat_message(cur[c].inserted_id, user_id[c], cur[c].receiver_id,
                          cur[c].message_content, cur[c].timestamp) \in written
    /\ \A s \in Slots :
          ~IsError(frame(s)) =>
             \E r \in written :
                /\ frame(s).id = str(r._id)
                /\ frame(s).sender_id = r.sender_id
                /\ frame(s).message = r.message
                /\ frame(s).timestamp = isoformat(r.timestamp)
                /\ IsPush(frame(s)) => user_id[s[1]] = r.receiver_id
                /\ IsConfirmation(frame(s)) => user_id[s[1]] = r.sender_id

\* A message has been pushed to its receiver and confirmed to its sender.
C3_Witness ==
    \E s, t \in Slots :
        /\ IsPush(frame(s))
        /\ IsConfirmation(frame(t))
        /\ frame(s).id = frame(t).id

\* C4: a failed push is not escalated.  When a handler leaves the receiver's
\* send with nothing put on the receiver's channel, it goes on to the
\* confirmation with sent = False, the stored record stays, and the handler
\* keeps running.
C4_FailedPushNotEscalated ==
    [][\A c \in Conns :
          (/\ pc[c] = "push"
           /\ pc'[c] # "push"
           /\ chan'[cur[c].target] = chan[cur[c].target])
          => (/\ pc'[c] = "ack"
              /\ cur'[c].sent = FALSE
              /\ written' = written
              /\ active_connections' = active_connections)
      ]_vars

\* C5: when the store write of a frame fails (the handler leaves insert_one
\* with no document acknowledged), the handler stops there: nothing is put on
\* any channel, neither a push nor a confirmation, the collection holds no
\* record for the frame, and the handler takes no later step.
C5_StoreFailureNoDelivery ==
    [][\A c \in Conns :
          /\ (pc[c] = "insert" /\ pc'[c] # "insert" /\ written' = written)
             => (/\ pc'[c] = "closed"
                 /\ chan' = chan
                 /\ chat_collection' = chat_collection)
          /\ pc[c] = "closed" => pc'[c] = "closed"
      ]_vars

\* A store write has failed while another connection was registered and open,
\* and no channel has been sent anything.
C5_Witness ==
    \E c \in Conns :
        /\ pc[c] = "closed"
        /\ exc[c] = [type |-> "PyMongoError", at |-> "insert"]
        /\ \E u \in DOMAIN active_connections :
              active_connections[u] # c /\ ChannelOpen(active_connections[u])
        /\ Slots = {}

\* C6: when the store write of a frame fails, the sending connection is sent
\* an error reply for that frame.
C6_StoreErrorSurfaced ==
    [][\A c \in Conns :
          (pc[c] = "insert" /\ pc'[c] # "insert" /\ written' = written)
          => (/\ Len(chan'[c]) = Len(chan[c]) + 1
              /\ IsError(chan'[c][Len(chan'[c])]))
      ]_vars

\* C7: a well-formed frame from U to R, the write accepted, R without a
\* registry entry when the handler looks R up.  The insert adds exactly one
\* document and the handler goes straight to the confirmation; that document
\* has sender U, receiver R and is_read false; no channel is ever sent a push
\* for it; and once the confirmation is sent (U's peer being there to take it)
\* there is exactly one, on U's channel, with delivered false.
C7_State ==
    \A c \in Conns :
        (Dispatching(c) /\ cur[c].target = NoChannel) =>
           LET m == cur[c].inserted_id IN
           /\ pc[c] # "push"
           /\ cur[c].sent = FALSE
           /\ Cardinality(RecordsOf(m)) = 1
           /\ \A r \in RecordsOf(m) :
                 /\ r.sender_id = user_id[c]
                 /\ r.receiver_id = cur[c].receiver_id
                 /\ r.is_read = FALSE
           /\ PushesOf(m) = {}
           /\ pc[c] = "ack" => AcksOf(m) = {}
           /\ pc[c] = "recv" =>
                 /\ Cardinality(AcksOf(m)) = 1
                 /\ \A s \in AcksOf(m) :
                       s[1] = c /\ frame(s).delivered = FALSE

C7_Step ==
    \A c \in Conns :
        (/\ pc[c] = "insert"
         /\ pc'[c] # "insert"
         /\ written' # written
         /\ cur[c].receiver_id \notin DOMAIN active_connections)
        => (/\ pc'[c] = "ack"
            /\ cur'[c].target = NoChannel
            /\ chat_collection \subseteq chat_collection'
            /\ Cardinality(chat_collection' \ chat_collection) = 1
            /\ Cardinality(written' \ written) = 1
            /\ chan' = chan)

C7_UnregisteredReceiver == []C7_State /\ [][C7_Step]_vars

\* U has been sent the confirmation of a message to an unregistered receiver.
C7_Witness ==
    \E c \in Conns :
        /\ pc[c] = "recv"
        /\ Dispatching(c)
        /\ cur[c].target = NoChannel
        /\ cur[c].receiver_id \notin DOMAIN active_connections
        /\ AcksOf(cur[c].inserted_id) # {}

\* C8: a well-formed frame from U to R, the write accepted, R registered when
\* the handler looks R up.  The handler sends on the channel the registry
\* holds for R at that moment; once that channel has taken the push there is
\* exactly one push of the message, on that channel and no other, with the
\* id, sender, body and timestamp of the stored record and no "delivered"
\* field; and once the confirmation is sent there is exactly one, on U's
\* channel, with delivered true.
C8_State ==
    \A c \in Conns :
        (Dispatching(c) /\ cur[c].target # NoChannel) =>
           LET m == cur[c].inserted_id IN
           /\ Cardinality(RecordsOf(m)) = 1
           /\ pc[c] = "push" =>
                 /\ PushesOf(m) = {}
                 /\ AcksOf(m) = {}
           /\ pc[c] \in {"ack", "recv"} =>
                 /\ cur[c].sent = TRUE
                 /\ Cardinality(PushesOf(m)) = 1
                 /\ \A s \in PushesOf(m) : \A r \in RecordsOf(m) :
                       /\ s[1] = cur[c].target
                       /\ frame(s).id = str(r._id)
                       /\ frame(s).sender_id = r.sender_id
                       /\ r.sender_id = user_id[c]
                       /\ frame(s).message = r.message
                       /\ frame(s).timestamp = isoformat(r.timestamp)
                       /\ "delivered" \notin DOMAIN frame(s)
           /\ pc[c] = "ack" => AcksOf(m) = {}
           /\ pc[c] = "recv" =>
                 /\ Cardinality(AcksOf(m)) = 1
                 /\ \A s \in AcksOf(m) :
                       s[1] = c /\ frame(s).delivered = TRUE

C8_Step ==
    \A c \in Conns :
        (/\ pc[c] = "insert"
         /\ pc'[c] # "insert"
         /\ written' # written
         /\ cur[c].receiver_id \in DOMAIN active_connections)
        => (/\ pc'[c] = "push"
            /\ cur'[c].target = active_connections[cur[c].receiver_id]
            /\ chan' = chan)

C8_RegisteredReceiver == []C8_State /\ [][C8_Step]_vars

\* U has been sent the confirmation of a message that was pushed on the
\* channel of another connection.
C8_Witness ==
    \E c \in Conns :
        /\ pc[c] = "recv"
        /\ Dispatching(c)
        /\ cur[c].target \notin {NoChannel, c}
        /\ PushesOf(cur[c].inserted_id) # {}
        /\ AcksOf(cur[c].inserted_id) # {}

\* The frames C9 is about: text that does not parse, and objects whose
\* receiver_id or message is missing or empty.
MalformedFrame(f) ==
    \/ f.kind = "text"
    \/ /\ f.kind = "object"
       /\ \/ f.receiver_id \in {NoneId, 0}
          \/ f.message \in {NoneText, ""}

ErrorText(f) ==
    IF f.kind = "text" THEN "Invalid JSON" ELSE "Invalid message format"

\* C9: parsing and validation errors never reach the store.  A handler that
\* has received a malformed frame goes to the error reply with the collection
\* and every channel as they were, and never to insert_one; it leaves the
\* reply with the collection untouched and the error frame as the one frame
\* added, on the sender's channel (or, the sender's peer being gone, with
\* nothing sent and the handler ended).  No stored record has a missing or
\* empty receiver or body.
C9_State ==
    /\ \A c \in Conns : MalformedFrame(data[c]) => pc[c] = "reply"
    /\ \A r \in chat_collection \cup written :
          r.receiver_id \notin {NoneId, 0} /\ r.message \notin {NoneText, ""}

C9_Step ==
    \A c \in Conns :
        /\ (pc[c] = "recv" /\ MalformedFrame(data'[c]))
           => (/\ pc'[c] = "reply"
               /\ chat_collection' = chat_collection
               /\ written' = written
               /\ chan' = chan)
        /\ (pc[c] = "reply" /\ pc'[c] # "reply")
           => (/\ chat_collection' = chat_collection
               /\ written' = written
               /\ \/ /\ pc'[c] = "recv"
                     /\ chan' = [chan EXCEPT ![c] =
                                   Append(@, [error |-> ErrorText(data[c])])]
                  \/ /\ pc'[c] = "closed"
                     /\ exc'[c].at = "reply"
                     /\ chan' = chan)

C10_MalformedKeepsConnection ==
    \A c \in Conns : pc[c] = "closed" => exc[c].at # "parse"

\* C11: last connect wins.  The registry is a mapping, so a user has at most
\* one channel; an entry is always the newest connection opened for its user;
\* a connection being registered for U leaves the registry mapping U to that
\* connection, whatever it held for U before, and every other entry as it
\* was; and a send to U goes to the channel the registry holds when U is
\* looked up, which no later connection of U has displaced, and lands on that
\* channel and no other.
C11_State ==
    \A u \in DOMAIN active_connections :
        LET ws == active_connections[u] IN
        /\ ws \in 1..nConns
        /\ user_id[ws] = u
        /\ \A c \in 1..nConns : user_id[c] = u => c <= ws

C11_Step ==
    /\ nConns' # nConns =>
          LET ws == nConns'
              u == user_id'[ws] IN
          /\ u \in DOMAIN active_connections'
          /\ active_connections'[u] = ws
          /\ DOMAIN active_connections' = DOMAIN active_connections \cup {u}
          /\ \A x \in DOMAIN active_connections \ {u} :
                active_connections'[x] = active_connections[x]
    /\ \A c \in Conns :
          /\ (pc[c] = "insert" /\ pc'[c] = "push") =>
                /\ cur'[c].target = active_connections[cur[c].receiver_id]
                /\ \A d \in 1..nConns :
                      user_id[d] = cur[c].receiver_id => d <= cur'[c].target
          /\ (pc[c] = "push" /\ pc'[c] = "ack") =>
                \A d \in Conns \ {cur[c].target} : chan'[d] = chan[d]

C11_LastConnectWins == []C11_State /\ [][C11_Step]_vars

\* U has two connections; a message for U was pushed, and it went to the
\* second connection while the first was sent nothing.
C11_Witness ==
    \E c \in Conns :
        /\ nConns = 2
        /\ user_id[1] = user_id[2]
        /\ Dispatching(c)
        /\ cur[c].receiver_id = user_id[2]
        /\ cur[c].target = 2
        /\ \E s \in PushesOf(cur[c].inserted_id) : s[1] = 2
        /\ chan[1] = << >>

(* --------------------- claims on the REST endpoints -------------------- *)
\* A step that serves a REST request: the handlers of the websockets stay
\* where they are.  rest' is the request served and its response.
Served(op) == pc' = pc /\ rest'.op = op

\* The stored records sent by s to r that are unread.
UnreadFrom(coll, s, r) ==
    {d \in coll : d.sender_id = s /\ d.receiver_id = r /\ ~d.is_read}

\* C12: mark-read is idempotent.  mark-read(A, B) returns the number of unread
\* records from A to B and leaves none unread; unread counts asked for B
\* while that is so hold no count for A; and a second mark-read(A, B) with no
\* dispatch from A to B in between returns 0 and leaves the store as it was.
C12_Step ==
    /\ Served("mark_messages_read") =>
          LET A == rest'.sender_id
              B == rest'.receiver_id IN
          /\ rest'.status = 200
          /\ rest'.body.marked_as_read =
                Cardinality(UnreadFrom(chat_collection, A, B))
          /\ UnreadFrom(chat_collection', A, B) = {}
          /\ (/\ rest.op = "mark_messages_read"
              /\ rest.sender_id = A
              /\ rest.receiver_id = B
              /\ UnreadFrom(chat_collection, A, B) = {})
             => (/\ rest'.body.marked_as_read = 0
                 /\ chat_collection' = chat_collection)
    /\ (/\ Served("unread_messages")
        /\ rest.op = "mark_messages_read"
        /\ rest.receiver_id = rest'.user_id
        /\ UnreadFrom(chat_collection, rest.sender_id, rest.receiver_id) = {})
       => \A k \in DOMAIN rest'.body :
             k = str(rest.sender_id) => rest'.body[k] <= 0

C12_MarkReadIdempotent == [][C12_Step]_vars

\* A mark-read has returned 0 for a pair whose records, two of them, an
\* earlier mark-read had marked.
C12_Witness ==
    /\ rest.op = "mark_messages_read"
    /\ rest.body.marked_as_read = 0
    /\ Cardinality({d \in chat_collection :
                       /\ d.sender_id = rest.sender_id
                       /\ d.receiver_id = rest.receiver_id
                       /\ d.is_read}) = 2

\* C13: the read flag only ever goes from false to true.  A record enters the
\* store unread; over a dispatch, a mark-read, a delete or a query no stored
\* record changes in anything but its flag, no flag goes back to false, and a
\* flag that changes does so in a mark-read naming that record's sender and
\* receiver.
C13_Step ==
    /\ \A d \in chat_collection' :
          (\A e \in chat_collection : e._id # d._id) => d.is_read = FALSE
    /\ \A e \in chat_collection : \A d \in chat_collection' :
          e._id = d._id =>
             /\ d = [e EXCEPT !.is_read = d.is_read]
             /\ e.is_read => d.is_read
             /\ e.is_read # d.is_read =>
                   /\ Served("mark_messages_read")
                   /\ rest'.sender_id = e.sender_id
                   /\ rest'.receiver_id = e.receiver_id

C13_ReadStateMonotonic == [][C13_Step]_vars

\* A mark-read has marked the record of its pair, and the record of another
\* pair is stored unread.
C13_Witness ==
    /\ rest.op = "mark_messages_read"
    /\ rest.body.marked_as_read = 1
    /\ \E d \in chat_collection : \E e \in chat_collection :
          /\ d.is_read
          /\ <<d.sender_id, d.receiver_id>> =
                <<rest.sender_id, rest.receiver_id>>
          /\ ~e.is_read
          /\ <<d.sender_id, d.receiver_id>> # <<e.sender_id, e.receiver_id>>

\* C14: delete is idempotent with a distinct second outcome.  Deleting the id
\* of a stored record answers success and removes that record and no other;
\* deleting the same id again answers NOT_FOUND (status 404, which no other
\* failure of the endpoint has) and leaves the store as it was.
C14_Step ==
    Served("delete_message") =>
       LET found == {d \in chat_collection : str(d._id) = rest'.message_id}
       IN
       /\ found # {} =>
             /\ rest'.status = 200
             /\ rest'.body = [success |-> TRUE]
             /\ Cardinality(found) = 1
             /\ chat_collection' = chat_collection \ found
       /\ (/\ rest.op = "delete_message"
           /\ rest.message_id = rest'.message_id
           /\ rest.status = 200)
          => (/\ rest'.status = 404
              /\ chat_collection' = chat_collection)
       /\ rest'.message_id = JunkId => rest'.status # 404

C14_DeleteTwiceNotFound == [][C14_Step]_vars

\* The stored records sent by a to b or by b to a.
Between(coll, a, b) ==
    {d \in coll : \/ d.sender_id = a /\ d.receiver_id = b
                  \/ d.sender_id = b /\ d.receiver_id = a}

\* C15: the conversation key does not depend on direction.  Every stored
\* record's key is the pair of its sender and receiver, smaller first; the
\* key of (A, B) is the key of (B, A); the records history(A, B) selects are
\* those history(B, A) selects, namely all stored records between A and B in
\* either direction; and a history that was served holds records of that set
\* only, all of them when its window covers the collection.
C15_ConversationKeySymmetric ==
    /\ \A d \in chat_collection :
          /\ Len(d.conversation_id) = 2
          /\ d.conversation_id[1] <= d.conversation_id[2]
          /\ {d.conversation_id[1], d.conversation_id[2]} =
                {d.sender_id, d.receiver_id}
    /\ \A a \in Users : \A b \in Users :
          /\ sorted(a, b) = sorted(b, a)
          /\ find_conversation(chat_collection, a, b) =
                find_conversation(chat_collection, b, a)
          /\ find_conversation(chat_collection, a, b) =
                Between(chat_collection, a, b)
    /\ rest.op = "chat_history" =>
          LET all == {str(d._id) : d \in Between(chat_collection,
                                                 rest.user_id1, rest.user_id2)}
              got == {rest.body[i].id : i \in DOMAIN rest.body}
          IN /\ got \subseteq all
             /\ (rest.skip = 0 /\ rest.limit = MaxConns) => got = all

\* The history of (A, B), asked with the larger id first, has returned a
\* record sent by A and a record sent by B.
C15_Witness ==
    /\ rest.op = "chat_history"
    /\ rest.user_id1 > rest.user_id2
    /\ \E i \in DOMAIN rest.body : \E j \in DOMAIN rest.body :
          /\ rest.body[i].sender_id = rest.user_id1
          /\ rest.body[j].sender_id = rest.user_id2

\* C16: history is time-ordered and paged.  A history of (A, B) served with
\* an offset and a limit holds min(limit, n - offset) records of the n stored
\* between A and B (none when the offset passes n), each once and with its
\* stored fields, in non-decreasing timestamp order, at the positions offset+1
\* onwards of the conversation sorted by timestamp ascending: a record at
\* position p has at most p-1 records of the conversation before it in time
\* and at least p no later than it.  The store is as it was.
C16_HistoryOrderedAndPaged ==
    rest.op = "chat_history" =>
       LET conv == Between(chat_collection, rest.user_id1, rest.user_id2)
           n == Cardinality(conv)
           body == rest.body
           rec(i) == {d \in conv : str(d._id) = body[i].id}
       IN
       /\ rest.status = 200
       /\ Len(body) = IF rest.skip >= n THEN 0
                     ELSE IF n - rest.skip <= rest.limit THEN n - rest.skip
                     ELSE rest.limit
       /\ \A i \in DOMAIN body : \A j \in DOMAIN body :
             /\ i < j => body[i].timestamp[2] <= body[j].timestamp[2]
             /\ i # j => body[i].id # body[j].id
       /\ \A i \in DOMAIN body :
             /\ Cardinality(rec(i)) = 1
             /\ \A d \in rec(i) :
                   /\ body[i].sender_id = d.sender_id
                   /\ body[i].receiver_id = d.receiver_id
                   /\ body[i].message = d.message
                   /\ body[i].timestamp = isoformat(d.timestamp)
                   /\ body[i].is_read = d.is_read
                   /\ Cardinality({e \in conv : e.timestamp < d.timestamp})
                         <= rest.skip + i - 1
                   /\ Cardinality({e \in conv : e.timestamp <= d.timestamp})
                         >= rest.skip + i
       /\ chat_collection = written

\* A conversation holds an earlier record sent one way and a later record
\* sent the other way; its history from offset 1 has returned the later one.
C16_Witness ==
    /\ rest.op = "chat_history"
    /\ rest.skip = 1
    /\ Len(rest.body) = 1
    /\ \E d \in chat_collection :
          /\ d.sender_id # rest.body[1].sender_id
          /\ d.receiver_id = rest.body[1].sender_id
          /\ d.sender_id = rest.body[1].receiver_id
          /\ isoformat(d.timestamp) # rest.body[1].timestamp
          /\ d.timestamp < rest.body[1].timestamp[2]

\* The user an entry of the recent conversations of U is about.
Counterpart(e, U) == IF e.sender_id = U THEN e.receiver_id ELSE e.sender_id

\* The latest timestamp among the stored records between U and C.
Latest(coll, U, C) ==
    CHOOSE t \in {d.timestamp : d \in Between(coll, U, C)} :
        \A d \in Between(coll, U, C) : d.timestamp <= t

\* C17: recent conversations give one entry per counterpart.  The list served
\* for U names no counterpart twice; the entry for C is a stored record
\* between U and C, in either direction, that no record between them is later
\* than; the entries come in non-increasing timestamp order; there are
\* min(limit, number of counterparts) of them and no counterpart left out has
\* a later last record than one listed; each entry's unread_count is the
\* number of stored unread records from C to U.  The store is as it was.
C17_RecentConversations ==
    rest.op = "recent_conversations" =>
       LET U == rest.user_id
           body == rest.body
           coll == chat_collection
           all == {Counterpart(d, U) :
                      d \in {e \in coll : e.sender_id = U \/ e.receiver_id = U}}
           listed == {Counterpart(body[i], U) : i \in DOMAIN body}
           rec(i) == {d \in coll : str(d._id) = body[i].id}
       IN
       /\ chat_collection = written
       /\ rest.status = 200
       /\ Len(body) = IF Cardinality(all) <= rest.limit
                     THEN Cardinality(all) ELSE rest.limit
       /\ \A i \in DOMAIN body : \A j \in DOMAIN body :
             /\ i # j => Counterpart(body[i], U) # Counterpart(body[j], U)
             /\ i < j => body[i].timestamp[2] >= body[j].timestamp[2]
       /\ \A i \in DOMAIN body :
             LET C == Counterpart(body[i], U) IN
             /\ Cardinality(rec(i)) = 1
             /\ \A d \in rec(i) :
                   /\ d \in Between(coll, U, C)
                   /\ d.timestamp = Latest(coll, U, C)
                   /\ body[i].sender_id = d.sender_id
                   /\ body[i].receiver_id = d.receiver_id
                   /\ body[i].message = d.message
                   /\ body[i].timestamp = isoformat(d.timestamp)
                   /\ body[i].is_read = d.is_read
             /\ body[i].unread_count = Cardinality(UnreadFrom(coll, C, U))
             /\ \A X \in all \ listed :
                   Latest(coll, U, X) <= Latest(coll, U, C)

\* A list of two counterparts has been served, the later conversation first:
\* the first entry is a record its counterpart sent and is still unread, the
\* second a record its counterpart sent and has been read.
C17_Witness ==
    /\ rest.op = "recent_conversations"
    /\ Len(rest.body) = 2
    /\ rest.body[1].timestamp[2] > rest.body[2].timestamp[2]
    /\ rest.body[1].receiver_id = rest.user_id
    /\ rest.body[1].unread_count = 1
    /\ rest.body[2].receiver_id = rest.user_id
    /\ rest.body[2].is_read
    /\ rest.body[2].unread_count = 0

\* C18: unread counts match the store.  The mapping served for R holds, for
\* every sender S with stored unread records to R, the number of those
\* records under the key of S, and holds no key for any other sender:
\* records that are read, deleted or addressed to someone else count nowhere.
C18_UnreadCountsMatchStore ==
    rest.op = "unread_messages" =>
       LET R == rest.user_id
           senders == {d.sender_id : d \in chat_collection}
       IN
       /\ rest.status = 200
       /\ \A S \in senders :
             LET n == Cardinality(UnreadFrom(chat_collection, S, R)) IN
             IF n > 0
             THEN str(S) \in DOMAIN rest.body /\ rest.body[str(S)] = n
             ELSE str(S) \notin DOMAIN rest.body
       /\ \A k \in DOMAIN rest.body : k[2] \in senders

\* C19: a message to oneself.  A well-formed frame from U with receiver_id U,
\* the write accepted and U registered when the handler looks U up: one
\* record is stored, with U as sender and as receiver and unread; the handler
\* sends on the channel the registry holds for U, a channel of U; once that
\* channel has taken the push there is exactly one push of the message, on
\* that channel; and once the confirmation is sent there is exactly one, on
\* the sender's channel, with delivered true, after the push where the two
\* share a channel.
C19_State ==
    \A c \in Conns :
        (/\ Dispatching(c)
         /\ cur[c].receiver_id = user_id[c]
         /\ cur[c].target # NoChannel) =>
           LET m == cur[c].inserted_id
               U == user_id[c] IN
           /\ Cardinality(RecordsOf(m)) = 1
           /\ \A r \in RecordsOf(m) :
                 /\ r.sender_id = U
                 /\ r.receiver_id = U
                 /\ r.is_read = FALSE
                 /\ r.conversation_id = <<U, U>>
           /\ user_id[cur[c].target] = U
           /\ pc[c] = "push" => PushesOf(m) = {} /\ AcksOf(m) = {}
           /\ pc[c] \in {"ack", "recv"} =>
                 /\ Cardinality(PushesOf(m)) = 1
                 /\ \A s \in PushesOf(m) :
                       s[1] = cur[c].target /\ frame(s).sender_id = U
           /\ pc[c] = "ack" => AcksOf(m) = {}
           /\ pc[c] = "recv" =>
                 /\ Cardinality(AcksOf(m)) = 1
                 /\ \A s \in AcksOf(m) :
                       /\ s[1] = c
                       /\ frame(s).delivered = TRUE
                       /\ \A q \in PushesOf(m) : q[1] = c => q[2] < s[2]

C19_Step ==
    \A c \in Conns :
        (/\ pc[c] = "insert"
         /\ pc'[c] # "insert"
         /\ written' # written
         /\ cur[c].receiver_id = user_id[c]
         /\ user_id[c] \in DOMAIN active_connections)
        => (/\ pc'[c] = "push"
            /\ cur'[c].target = active_connections[user_id[c]]
            /\ Cardinality(written') = Cardinality(written) + 1)

C19_SelfMessage == []C19_State /\ [][C19_Step]_vars

\* U's only connection has sent itself a message: its channel holds the push
\* and then the confirmation.
C19_Witness ==
    \E c \in Conns :
        /\ pc[c] = "recv"
        /\ Dispatching(c)
        /\ cur[c].receiver_id = user_id[c]
        /\ cur[c].target = c
        /\ Len(chan[c]) = 2
        /\ IsPush(chan[c][1])
        /\ IsConfirmation(chan[c][2])
        /\ chan[c][2].delivered = TRUE

\* C20: a dispatch leaves the registry as it is.  No step of a handler that
\* is processing a frame (the frame read, the error reply sent, the record
\* written, the push sent or failed, the confirmation sent) adds, removes or
\* replaces a registration; a step in which the sender's own peer is found
\* gone closes that connection and is not one of these, so the push counted
\* here is a push to another user.
C20_Step ==
    \A c \in Conns :
        (\/ pc[c] = "recv" /\ pc'[c] \in {"reply", "insert"}
         \/ pc[c] = "recv" /\ pc'[c] = "closed" /\ exc'[c].at = "parse"
         \/ pc[c] \in {"reply", "ack"} /\ pc'[c] = "recv"
         \/ pc[c] = "insert" /\ pc'[c] # "insert"
         \/ /\ pc[c] = "push"
            /\ pc'[c] # "push"
            /\ cur[c].receiver_id # user_id[c])
        => active_connections' = active_connections

C20_DispatchKeepsRegistry == [][C20_Step]_vars

====
